---- MODULE Spec2Model ----
(***************************************************************************)
(* Model of kivymd/uix/behaviors/elevation.py: CommonElevationBehavior,    *)
(* and of kivymd/uix/chip/chip.py: MDChip, a widget with that behavior.     *)
(*                                                                         *)
(* Units.  Lengths are whole pixels.  Colour channels and opacity are in    *)
(* tenths (1.0 is 10, 0.6 is 6).  shadow_softness takes multiples of 4 so   *)
(* that every division by 2 the code performs is exact on the integers.     *)
(* A pair <<x, y>> is a Python 2-list, a 4-tuple is a Python 4-list.        *)
(***************************************************************************)
EXTENDS Integers, Sequences, FiniteSets, TLC

(* ------------------------------ bounds --------------------------------- *)
MaxElev == 1
MaxQueue == 3
MaxAnimations == 3
MaxAssign == 2

(* --------------------------- input domains ----------------------------- *)
PosVals == {<<0, 0>>, <<4, 8>>}
SizeVals == {<<100, 100>>, <<20, 10>>}
ElevationInputs == (-1)..MaxElev
SoftnessVals == {8, 12}
OffsetVals == {<<0, 2>>, <<0, 0>>, <<3, -1>>}
OpacityVals == {10, 5}
ColorVals == {<<0, 0, 0, 6>>, <<0, 0, 10, 8>>}
BurstColorVals == ColorVals \cup {<<5, 0, 0, 10>>}
RadiusVals == {<<0, 0, 0, 0>>, <<1, 2, 3, 4>>, <<5, 5, 6, 7>>}
ParentOffsetVals == {<<0, 0>>, <<7, 1>>}
TransitionNames ==
    { <<"Slide", "Transition">>, <<"Card", "Transition">>,
      <<"Fade", "Transition">>, <<"MD", "Fade", "Slide", "Transition">>,
      <<"No", "Transition">> }
\* Ancestor chains, host first.  "plain" has no on_pre_enter; "screen" has
\* on_pre_enter and a manager; "orphan" has on_pre_enter and manager None;
\* "tab" has on_pre_enter and a header; "own_parent" is a plain root whose
\* parent is the root itself.  The parent of the last widget of any other
\* kind is None.
ChainVals ==
    { <<"plain">>, <<"plain", "plain">>, <<"plain", "screen">>,
      <<"plain", "orphan">>, <<"plain", "tab", "screen">>,
      <<"screen", "plain">>, <<"plain", "own_parent">>, <<"own_parent">> }

IconVals == {"", "check", "avatar.png"}

Unset == <<>>
Idle == <<>>

VARIABLES
    pos, size, opacity, disabled, radius,
    elevation, shadow_radius, shadow_softness, shadow_offset, shadow_color,
    _transition_ref, _has_relative_position, _elevation, _shadow_color,
    has_rect, rect, context,
    clock,
    chain, parent_offset, transition, running, bound, draw_bound,
    bindings,
    active, icon_left, animations, touch, state, long_touch_event,
    seen_active, assigned

\* The chip's own state: the active and icon_left properties, the
\* animations started so far, the touch on the screen ("up", or down
\* "inside" or "outside" the chip), the button state, the pending long-touch
\* clock event, the value of active the inherited touch handling saw, and
\* the number of assignments made to active from outside.
chip_vars == << active, icon_left, animations, touch, state,
                long_touch_event, seen_active, assigned >>

behavior_vars ==
    << pos, size, opacity, disabled, radius,
       elevation, shadow_radius, shadow_softness, shadow_offset,
       shadow_color, _transition_ref, _has_relative_position,
       _elevation, _shadow_color, has_rect, rect, context, clock,
       chain, parent_offset, transition, running, bound, draw_bound,
       bindings >>

vars == << pos, size, opacity, disabled, radius,
           elevation, shadow_radius, shadow_softness, shadow_offset,
           shadow_color, _transition_ref, _has_relative_position,
           _elevation, _shadow_color, has_rect, rect, context, clock,
           chain, parent_offset, transition, running, bound, draw_bound,
           bindings,
           active, icon_left, animations, touch, state, long_touch_event,
           seen_active, assigned >>

\* The widget, its render context, the clock queue and the part of the
\* widget tree it reads, as one record the handlers transform.
Self ==
    [ pos |-> pos, size |-> size, opacity |-> opacity,
      disabled |-> disabled, radius |-> radius,
      elevation |-> elevation, shadow_radius |-> shadow_radius,
      shadow_softness |-> shadow_softness,
      shadow_offset |-> shadow_offset, shadow_color |-> shadow_color,
      _transition_ref |-> _transition_ref,
      _has_relative_position |-> _has_relative_position,
      _elevation |-> _elevation, _shadow_color |-> _shadow_color,
      has_rect |-> has_rect, rect |-> rect, context |-> context,
      clock |-> clock,
      chain |-> chain, parent_offset |-> parent_offset,
      transition |-> transition, running |-> running,
      bound |-> bound, draw_bound |-> draw_bound, bindings |-> bindings ]

Commit(w) ==
    /\ pos' = w.pos
    /\ size' = w.size
    /\ opacity' = w.opacity
    /\ disabled' = w.disabled
    /\ radius' = w.radius
    /\ elevation' = w.elevation
    /\ shadow_radius' = w.shadow_radius
    /\ shadow_softness' = w.shadow_softness
    /\ shadow_offset' = w.shadow_offset
    /\ shadow_color' = w.shadow_color
    /\ _transition_ref' = w._transition_ref
    /\ _has_relative_position' = w._has_relative_position
    /\ _elevation' = w._elevation
    /\ _shadow_color' = w._shadow_color
    /\ has_rect' = w.has_rect
    /\ rect' = w.rect
    /\ context' = w.context
    /\ clock' = w.clock
    /\ chain' = w.chain
    /\ parent_offset' = w.parent_offset
    /\ transition' = w.transition
    /\ running' = w.running
    /\ bound' = w.bound
    /\ draw_bound' = w.draw_bound
    /\ bindings' = w.bindings
    /\ UNCHANGED chip_vars

Chip ==
    [ active |-> active, icon_left |-> icon_left,
      animations |-> animations, touch |-> touch, state |-> state,
      long_touch_event |-> long_touch_event, seen_active |-> seen_active,
      assigned |-> assigned ]

CommitChip(c) ==
    /\ active' = c.active
    /\ icon_left' = c.icon_left
    /\ animations' = c.animations
    /\ touch' = c.touch
    /\ state' = c.state
    /\ long_touch_event' = c.long_touch_event
    /\ seen_active' = c.seen_active
    /\ assigned' = c.assigned
    /\ UNCHANGED behavior_vars

(* ------------------------------ helpers -------------------------------- *)
\* x / 2 on a value the code only ever halves when it is even.
Half(x) == x \div 2

\* value[:-1]
ButLast(value) == SubSeq(value, 1, Len(value) - 1)

schedule_once_in_front(w, task, value) ==
    [w EXCEPT !.clock = <<[task |-> task, value |-> value]>> \o @]

\* Clock.schedule_once(callback): appended to the pending one-shot events.
schedule_once(w, task, value) ==
    [w EXCEPT !.clock = Append(@, [task |-> task, value |-> value])]

\* to_window(*self.pos): the local position shifted by the ancestors' offset.
window_pos(w) ==
    <<w.pos[1] + w.parent_offset[1], w.pos[2] + w.parent_offset[2]>>

\* "needle in haystack" on class names split into words.
Contains(haystack, needle) ==
    \E i \in 0..(Len(haystack) - Len(needle)) :
        SubSeq(haystack, i + 1, i + Len(needle)) = needle

(* ------------------------------ handlers ------------------------------- *)
update_resolution(w) ==
    [w EXCEPT !.context.resolution = w.rect.size \o w.rect.pos]

on_pos_plus_offset(w) ==
    IF ~w.has_rect THEN w
    ELSE
        LET p == IF w._has_relative_position
                    /\ ~w.context.use_parent_modelview
                 THEN window_pos(w) ELSE w.pos
            rp == << p[1] - Half(w.rect.size[1] - w.size[1])
                          + w.shadow_offset[1],
                     p[2] - Half(w.rect.size[2] - w.size[2])
                          + w.shadow_offset[2] >>
            w1 == [w EXCEPT !.rect.pos = rp,
                            !.context.mouse = <<rp[1], 0, 0, 0>>,
                            !.context.pos = rp]
        IN update_resolution(w1)

on_pos(w) ==
    IF ~w.has_rect THEN w
    ELSE
        LET p == IF w._has_relative_position
                    /\ ~w.context.use_parent_modelview
                 THEN window_pos(w) ELSE w.pos
            rp == << p[1] - Half(w.rect.size[1] - w.size[1])
                          - w.shadow_offset[1],
                     p[2] - Half(w.rect.size[2] - w.size[2])
                          - w.shadow_offset[2] >>
            w1 == [w EXCEPT !.rect.pos = rp,
                            !.context.mouse = <<rp[1], 0, 0, 0>>,
                            !.context.pos = rp]
        IN update_resolution(w1)

on_size(w) ==
    IF ~w.has_rect THEN w
    ELSE
        LET rs == << w.size[1] + Half(w._elevation * w.shadow_softness),
                     w.size[2] + Half(w._elevation * w.shadow_softness) >>
            w1 == [w EXCEPT !.rect.size = rs,
                            !.context.mouse = <<w.rect.pos[1], 0, 0, 0>>,
                            !.context.size = rs]
        IN update_resolution(w1)

update_window_position(w) == on_pos(w)

on_shadow_color(w, value) == schedule_once(w, "on_shadow_color", value)

on_shadow_radius(w, value) == schedule_once(w, "on_shadow_radius", value)

on_shadow_softness(w, value) ==
    schedule_once(w, "on_shadow_softness", <<value>>)

on_elevation(w, value) == schedule_once(w, "on_elevation", <<value>>)

on_opacity(w, value) == schedule_once(w, "on_opacity", <<value>>)

on_shadow_offset(w, value) == on_pos(on_size(w))

hide_elevation_zeroes_elevation(w, hide) ==
    LET w1 == IF hide
              THEN [w EXCEPT !.elevation = 0,
                             !._elevation = 0,
                             !._shadow_color = <<0, 0, 0, 0>>]
              ELSE [w EXCEPT !._elevation = w.elevation,
                             !._shadow_color =
                                 ButLast(w.shadow_color) \o <<w.opacity>>]
        w2 == on_shadow_color(w1, w1._shadow_color)
    IN on_pos(on_size(w2))

hide_elevation(w, hide) ==
    LET w1 == IF hide
              THEN [w EXCEPT !._elevation = -w.elevation,
                             !._shadow_color = <<0, 0, 0, 0>>]
              ELSE [w EXCEPT !._elevation = w.elevation,
                             !._shadow_color =
                                 ButLast(w.shadow_color) \o <<w.opacity>>]
        w2 == on_shadow_color(w1, w1._shadow_color)
    IN on_pos(on_size(w2))

on_disabled_zero_after_hide(w, value) ==
    IF value
    THEN [hide_elevation(w, TRUE) EXCEPT !._elevation = 0]
    ELSE hide_elevation(w, FALSE)

on_disabled(w, value) ==
    IF value
    THEN hide_elevation([w EXCEPT !._elevation = 0], TRUE)
    ELSE hide_elevation(w, FALSE)

on_radius_identity(w, value) == [w EXCEPT !.shadow_radius = value]

\* on_radius assigns shadow_radius; the property dispatches
\* on_shadow_radius only when the value changes.
on_radius(w, value) ==
    LET sr == <<value[2], value[3], value[1], value[4]>>
        w1 == [w EXCEPT !.shadow_radius = sr]
    IN IF sr # w.shadow_radius THEN on_shadow_radius(w1, sr) ELSE w1

(* ----------------------- relative-position corrector ------------------- *)
HasPreEnter(kind) == kind \in {"screen", "orphan", "tab"}

\* widget.parent: the next widget of the chain, 0 for None.
Parent(ch, i) ==
    IF ch[i] = "own_parent" THEN i
    ELSE IF i < Len(ch) THEN i + 1
    ELSE 0

RECURSIVE WalkFrom_without_self_check(_, _, _)
WalkFrom_without_self_check(ch, i, visited) ==
    IF visited > Len(ch) THEN -1
    ELSE IF HasPreEnter(ch[i]) THEN i
    ELSE IF Parent(ch, i) # 0
         THEN WalkFrom_without_self_check(ch, Parent(ch, i), visited + 1)
    ELSE 0

\* The while loop of check_for_relative_behavior from widget i, the
\* visited-th it looks at: the index in the chain of the first widget that
\* has on_pre_enter; 0 when the walk reaches a widget without a parent, or
\* whose parent prints as the widget itself, first; -1 when the loop is
\* still going after it has looked at more widgets than the chain has.
RECURSIVE WalkFrom(_, _, _)
WalkFrom(ch, i, visited) ==
    IF visited > Len(ch) THEN -1
    ELSE IF HasPreEnter(ch[i]) THEN i
    ELSE IF Parent(ch, i) # 0 /\ Parent(ch, i) # i
         THEN WalkFrom(ch, Parent(ch, i), visited + 1)
    ELSE 0

FindLifecycleWidget(ch, i) == WalkFrom(ch, i, 1)

\* The four widget.bind(...) calls on widget i.
LifecycleBindings(i) ==
    { [widget |-> i, event |-> "on_pre_enter",
       callback |-> "apply_correction"],
      [widget |-> i, event |-> "on_pre_leave",
       callback |-> "apply_correction"],
      [widget |-> i, event |-> "on_enter", callback |-> "reset_correction"],
      [widget |-> i, event |-> "on_leave",
       callback |-> "reset_correction"] }

check_for_relative_behavior(w) ==
    LET w1 == IF w.pos # window_pos(w)
              THEN [w EXCEPT !._has_relative_position = TRUE] ELSE w
        i == FindLifecycleWidget(w.chain, 1)
        w2 == IF i = 0 THEN w1
              ELSE IF i < 0 THEN [w1 EXCEPT !.bound = i]
              ELSE [w1 EXCEPT
                      !.bound = i,
                      !.bindings = @ \cup LifecycleBindings(i),
                      !._has_relative_position = TRUE,
                      !._transition_ref =
                          IF w.chain[i] = "tab" THEN "panel"
                          ELSE IF w.chain[i] = "screen" THEN "manager"
                          ELSE @]
    IN IF w2._has_relative_position
       THEN [w2 EXCEPT !.draw_bound = TRUE] ELSE w2

IsSlideOrCardString(name) ==
    \/ Contains(name, <<"Slide", "Transition">>)
    \/ Contains(name, <<"Card", "Transition">>)

apply_correction_swapped(w) ==
    IF w._transition_ref # "none"
    THEN IF IsSlideOrCardString(w.transition)
         THEN [w EXCEPT !.context.use_parent_modelview = TRUE]
         ELSE [w EXCEPT !.context.use_parent_modelview = FALSE]
    ELSE w

apply_correction(w) ==
    IF w._transition_ref # "none"
    THEN IF IsSlideOrCardString(w.transition)
         THEN [w EXCEPT !.context.use_parent_modelview = FALSE]
         ELSE [w EXCEPT !.context.use_parent_modelview = TRUE]
    ELSE w

reset_correction_parent_modelview(w) ==
    update_window_position(
        [w EXCEPT !.context.use_parent_modelview = TRUE])

reset_correction(w) ==
    update_window_position(
        [w EXCEPT !.context.use_parent_modelview = FALSE])

(* --------------------------- deferred tasks ---------------------------- *)
set_shader_string(w) ==
    [w EXCEPT !.context.shadow_radius = w.shadow_radius,
              !.context.shadow_softness = w.shadow_softness,
              !.context.shadow_color =
                  ButLast(w.shadow_color) \o <<w.opacity>>,
              !.context.pos = w.rect.pos,
              !.context.fs = "header.frag elevation.frag main.frag"]

after_init(w) ==
    LET w1 == schedule_once(w, "check_for_relative_behavior", <<>>)
        w2 == schedule_once(w1, "set_shader_string", <<>>)
        w3 == schedule_once(w2, "lambda_on_elevation", <<>>)
    IN on_pos(w3)

\* The closures the handlers hand to Clock.schedule_once.
deferred_on_shadow_color(w, value) ==
    LET c == ButLast(value) \o <<IF ~w.disabled THEN w.opacity ELSE 0>>
    IN [w EXCEPT !._shadow_color = c, !.context.shadow_color = c]

deferred_on_shadow_radius(w, value) ==
    IF w.has_rect THEN [w EXCEPT !.context.shadow_radius = value] ELSE w

deferred_on_shadow_softness(w, value) ==
    IF w.has_rect THEN [w EXCEPT !.context.shadow_softness = value] ELSE w

deferred_on_elevation(w, value) ==
    IF w.has_rect
    THEN hide_elevation([w EXCEPT !._elevation = value],
                        value <= 0 \/ w.disabled)
    ELSE w

deferred_on_opacity(w, value) ==
    LET c == ButLast(w._shadow_color) \o <<value>>
    IN [w EXCEPT !._shadow_color = c, !.context.shadow_color = c]

\* What the clock does with one pending event.
run_task(w, t) ==
    CASE t.task = "after_init" -> after_init(w)
      [] t.task = "check_for_relative_behavior" ->
             check_for_relative_behavior(w)
      [] t.task = "set_shader_string" -> set_shader_string(w)
      [] t.task = "lambda_on_elevation" -> on_elevation(w, w.elevation)
      [] t.task = "on_shadow_color" -> deferred_on_shadow_color(w, t.value)
      [] t.task = "on_shadow_radius" ->
             deferred_on_shadow_radius(w, t.value)
      [] t.task = "on_shadow_softness" ->
             deferred_on_shadow_softness(w, t.value[1])
      [] t.task = "on_elevation" -> deferred_on_elevation(w, t.value[1])
      [] t.task = "on_opacity" -> deferred_on_opacity(w, t.value[1])

\* All pending events run in scheduling order, none arriving in between.
RECURSIVE Drain(_)
Drain(w) ==
    IF w.clock = <<>> THEN w
    ELSE Drain(run_task([w EXCEPT !.clock = Tail(@)], Head(w.clock)))

(* ------------------------------ actions -------------------------------- *)
\* BoundedNumericProperty(0, min=0, errorvalue=0)
BoundedElevation_unchecked(v) == v

BoundedElevation(v) == IF v < 0 THEN 0 ELSE v

CanSchedule == Len(clock) < MaxQueue

\* A property dispatches its on_<name> handler only when the value changes.
SetPos(v) ==
    /\ v # pos
    /\ Commit(on_pos([Self EXCEPT !.pos = v]))

SetSize(v) ==
    /\ v # size
    /\ Commit(on_size([Self EXCEPT !.size = v]))

SetElevation(v) ==
    /\ BoundedElevation(v) # elevation
    /\ CanSchedule
    /\ Commit(on_elevation([Self EXCEPT !.elevation = BoundedElevation(v)],
                           BoundedElevation(v)))

SetShadowSoftness(v) ==
    /\ v # shadow_softness
    /\ CanSchedule
    /\ Commit(on_shadow_softness([Self EXCEPT !.shadow_softness = v], v))

SetShadowOffset(v) ==
    /\ v # shadow_offset
    /\ Commit(on_shadow_offset([Self EXCEPT !.shadow_offset = v], v))

SetShadowColor(v) ==
    /\ v # shadow_color
    /\ CanSchedule
    /\ Commit(on_shadow_color([Self EXCEPT !.shadow_color = v], v))

SetShadowRadius(v) ==
    /\ v # shadow_radius
    /\ CanSchedule
    /\ Commit(on_shadow_radius([Self EXCEPT !.shadow_radius = v], v))

SetRadius(v) ==
    /\ v # radius
    /\ CanSchedule
    /\ Commit(on_radius([Self EXCEPT !.radius = v], v))

SetOpacity(v) ==
    /\ v # opacity
    /\ CanSchedule
    /\ Commit(on_opacity([Self EXCEPT !.opacity = v], v))

SetDisabled(v) ==
    /\ v # disabled
    /\ CanSchedule
    /\ Commit(on_disabled([Self EXCEPT !.disabled = v], v))

RunTask ==
    /\ clock # <<>>
    /\ Commit(run_task([Self EXCEPT !.clock = Tail(@)], Head(clock)))

\* Window.on_draw, bound by check_for_relative_behavior.
WindowDraw ==
    /\ draw_bound
    /\ Commit(update_window_position(Self))

\* An ancestor moves (layout, or the screen sliding during a transition).
MoveParent(v) ==
    /\ Len(chain) > 1
    /\ v # parent_offset
    /\ Commit([Self EXCEPT !.parent_offset = v])

\* The manager's transition property is reassigned.
SetTransition(t) ==
    /\ t # transition
    /\ Commit([Self EXCEPT !.transition = t])

LifecycleWidget == FindLifecycleWidget(chain, 1)

\* on_pre_enter / on_pre_leave of the nearest widget with lifecycle events.
PreEvent ==
    /\ LifecycleWidget > 0
    /\ running = Idle
    /\ LET w == [Self EXCEPT !.running = transition]
       IN Commit(IF bound # 0 THEN apply_correction(w) ELSE w)

\* on_enter / on_leave of the same widget.
PostEvent ==
    /\ running # Idle
    /\ LET w == [Self EXCEPT !.running = Idle]
       IN Commit(IF bound # 0 THEN reset_correction(w) ELSE w)

(* -------------------------------- chip --------------------------------- *)
\* active = BooleanProperty(False), icon_left = StringProperty(); no touch,
\* no animation started, nothing assigned.
ChipDefaults ==
    /\ active = FALSE
    /\ icon_left = ""
    /\ animations = <<>>
    /\ touch = "up"
    /\ state = "normal"
    /\ long_touch_event = FALSE
    /\ seen_active = Unset
    /\ assigned = 0

\* The two Animation(...).start(...) calls: the icon box background and the
\* check icon scale, one pair.
do_animation_check(c, md_bg_color, scale_value) ==
    [c EXCEPT !.animations =
                  Append(@, [md_bg_color |-> md_bg_color,
                             scale_value |-> scale_value])]

on_active_swapped(c, active_value) ==
    IF active_value
    THEN do_animation_check(c, <<0, 0, 0, 0>>, 0)
    ELSE do_animation_check(c, <<0, 0, 0, 4>>, 1)

on_active(c, active_value) ==
    IF active_value
    THEN do_animation_check(c, <<0, 0, 0, 4>>, 1)
    ELSE do_animation_check(c, <<0, 0, 0, 0>>, 0)

\* self.active = v: the property stores the value and dispatches on_active
\* when it differs from the stored one.
assign_active(c, v) ==
    IF v = c.active THEN c ELSE on_active([c EXCEPT !.active = v], v)

on_long_touch_without_icon_check(c) ==
    IF c.active THEN c
    ELSE assign_active(c, IF ~c.active THEN TRUE ELSE FALSE)

on_long_touch(c) ==
    IF c.icon_left = "" THEN c
    ELSE IF c.active THEN c
    ELSE assign_active(c, IF ~c.active THEN TRUE ELSE FALSE)

\* The inherited on_touch_down of the button, ripple and long-touch
\* behaviors: the press handlers run (and see the chip as it is now), the
\* button goes down and the long-touch callback is put on the clock.
super_on_touch_down(c) ==
    [c EXCEPT !.seen_active = <<c.active>>,
              !.state = "down",
              !.long_touch_event = TRUE]

on_touch_down_delegates_first(c, inside) ==
    IF inside
    THEN LET c1 == super_on_touch_down(c)
         IN IF c1.active THEN assign_active(c1, FALSE) ELSE c1
    ELSE c

\* inside: self.collide_point(*touch.pos)
on_touch_down(c, inside) ==
    IF inside
    THEN super_on_touch_down(IF c.active THEN assign_active(c, FALSE) ELSE c)
    ELSE c

CanAnimate == Len(animations) < MaxAnimations

TouchDown_inherited(inside) ==
    /\ touch = "up"
    /\ CanAnimate
    /\ CommitChip(
           LET c == [Chip EXCEPT !.touch = IF inside THEN "inside"
                                           ELSE "outside",
                                 !.seen_active = Unset]
           IN IF inside THEN super_on_touch_down(c) ELSE c)

\* A finger goes down, on the chip or beside it.
TouchDown(inside) ==
    /\ touch = "up"
    /\ CanAnimate
    /\ CommitChip(on_touch_down(
           [Chip EXCEPT !.touch = IF inside THEN "inside" ELSE "outside",
                        !.seen_active = Unset],
           inside))

\* The finger has stayed down for duration_long_touch: the clock runs the
\* long-touch callback.
LongTouch ==
    /\ long_touch_event
    /\ CanAnimate
    /\ CommitChip(on_long_touch([Chip EXCEPT !.long_touch_event = FALSE]))

\* The finger goes up: the button is released and a long-touch callback
\* still pending is taken off the clock.
TouchUp ==
    /\ touch # "up"
    /\ CommitChip([Chip EXCEPT !.touch = "up",
                               !.state = "normal",
                               !.long_touch_event = FALSE])

\* chip.active = v from application code, whatever the stored value.
SetActive(v) ==
    /\ assigned < MaxAssign
    /\ CanAnimate
    /\ CommitChip(assign_active([Chip EXCEPT !.assigned = @ + 1], v))

SetIconLeft(v) ==
    /\ v # icon_left
    /\ CommitChip([Chip EXCEPT !.icon_left = v])

\* The application configures the chip while no finger is on the screen.
ConfigureActive(v) == touch = "up" /\ SetActive(v)

ConfigureIconLeft(v) == touch = "up" /\ SetIconLeft(v)

(* ----------------------------- construction -------------------------- *)
\* The property defaults of the class.
Defaults ==
    [ pos |-> <<0, 0>>, size |-> <<100, 100>>, opacity |-> 10,
      disabled |-> FALSE, radius |-> <<0, 0, 0, 0>>, elevation |-> 0,
      shadow_radius |-> <<0, 0, 0, 0>>, shadow_softness |-> 12,
      shadow_offset |-> <<0, 2>>, shadow_color |-> <<0, 0, 0, 6>> ]

\* super().__init__(**kwargs) assigns each keyword property once, in keyword
\* order, before self.context and self.rect exist; the handlers are the
\* ones of the Set actions.
KwargPos(v) == ~has_rect /\ pos = Defaults.pos /\ SetPos(v)
KwargSize(v) == ~has_rect /\ size = Defaults.size /\ SetSize(v)
KwargElevation(v) ==
    ~has_rect /\ elevation = Defaults.elevation /\ SetElevation(v)
KwargDisabled(v) ==
    ~has_rect /\ disabled = Defaults.disabled /\ SetDisabled(v)
KwargOpacity(v) == ~has_rect /\ opacity = Defaults.opacity /\ SetOpacity(v)
KwargShadowRadius(v) ==
    ~has_rect /\ shadow_radius = Defaults.shadow_radius /\ SetShadowRadius(v)
KwargShadowSoftness(v) ==
    /\ ~has_rect
    /\ shadow_softness = Defaults.shadow_softness
    /\ SetShadowSoftness(v)
KwargShadowColor(v) ==
    ~has_rect /\ shadow_color = Defaults.shadow_color /\ SetShadowColor(v)
KwargShadowOffset(v) ==
    ~has_rect /\ shadow_offset = Defaults.shadow_offset /\ SetShadowOffset(v)

\* The rest of __init__: the render context, the quad at the host's
\* position and size, and the deferred after_init.
Construct ==
    /\ ~has_rect
    /\ Commit(schedule_once(
           [Self EXCEPT !.has_rect = TRUE,
                        !.rect = [pos |-> pos, size |-> size]],
           "after_init", <<>>))

\* The clock runs the pending events of a built widget.
RunSetupTask == has_rect /\ RunTask

(* --------------------------- specifications ---------------------------- *)
\* The widget as __init__ leaves it when no property is passed to it.
InitWidget ==
    /\ pos = <<0, 0>>
    /\ size = <<100, 100>>
    /\ opacity = 10
    /\ disabled = FALSE
    /\ radius = <<0, 0, 0, 0>>
    /\ elevation = 0
    /\ shadow_radius = <<0, 0, 0, 0>>
    /\ shadow_softness = 12
    /\ shadow_offset = <<0, 2>>
    /\ shadow_color = <<0, 0, 0, 6>>
    /\ _transition_ref = "none"
    /\ _has_relative_position = FALSE
    /\ _elevation = 0
    /\ _shadow_color = <<0, 0, 0, 0>>
    /\ has_rect = TRUE
    /\ rect = [pos |-> pos, size |-> size]
    /\ context = [ use_parent_modelview |-> FALSE,
                   shadow_radius |-> Unset, shadow_softness |-> Unset,
                   shadow_color |-> Unset, pos |-> Unset, size |-> Unset,
                   resolution |-> Unset, mouse |-> Unset, fs |-> "" ]
    /\ clock = << [task |-> "after_init", value |-> <<>>] >>
    /\ running = Idle
    /\ bound = 0
    /\ draw_bound = FALSE
    /\ bindings = {}
    /\ ChipDefaults

\* Geometry: position, size, elevation, softness, offset and disabled change
\* under a plain parent that may sit at an offset from the window.
InitGeometry ==
    /\ InitWidget
    /\ chain = <<"plain", "plain">>
    /\ parent_offset \in ParentOffsetVals
    /\ transition = <<"Slide", "Transition">>

NextGeometry ==
    \/ \E v \in PosVals : SetPos(v)
    \/ \E v \in SizeVals : SetSize(v)
    \/ \E v \in ElevationInputs : SetElevation(v)
    \/ \E v \in SoftnessVals : SetShadowSoftness(v)
    \/ \E v \in OffsetVals : SetShadowOffset(v)
    \/ \E v \in BOOLEAN : SetDisabled(v)
    \/ RunTask

SpecGeometry == InitGeometry /\ [][NextGeometry]_vars

\* Colour: elevation, opacity, shadow colour and disabled change.
InitColour ==
    /\ InitWidget
    /\ chain = <<"plain", "plain">>
    /\ parent_offset = <<0, 0>>
    /\ transition = <<"Slide", "Transition">>

NextColour ==
    \/ \E v \in ElevationInputs : SetElevation(v)
    \/ \E v \in OpacityVals : SetOpacity(v)
    \/ \E v \in ColorVals : SetShadowColor(v)
    \/ \E v \in BOOLEAN : SetDisabled(v)
    \/ RunTask

SpecColour == InitColour /\ [][NextColour]_vars

\* Corner radii: the host radius and shadow_radius change.
InitRadius ==
    /\ InitWidget
    /\ chain = <<"plain", "plain">>
    /\ parent_offset = <<0, 0>>
    /\ transition = <<"Slide", "Transition">>

NextRadius ==
    \/ \E v \in RadiusVals : SetRadius(v)
    \/ \E v \in RadiusVals : SetShadowRadius(v)
    \/ RunTask

SpecRadius == InitRadius /\ [][NextRadius]_vars

\* Elevation: assignments of every input, negative ones included, to a
\* widget that is also disabled, enabled and recoloured.
InitElevation ==
    /\ InitWidget
    /\ chain = <<"plain", "plain">>
    /\ parent_offset = <<0, 0>>
    /\ transition = <<"Slide", "Transition">>

NextElevation ==
    \/ \E v \in ElevationInputs : SetElevation(v)
    \/ \E v \in BOOLEAN : SetDisabled(v)
    \/ \E v \in ColorVals : SetShadowColor(v)
    \/ RunTask

SpecElevation == InitElevation /\ [][NextElevation]_vars

\* Coordinate frame: the widget under every ancestor chain, with the
\* ancestors moving and the lifecycle events of a transition.
InitFrame ==
    /\ InitWidget
    /\ chain \in ChainVals
    /\ parent_offset \in ParentOffsetVals
    /\ transition \in TransitionNames

NextFrame ==
    \/ \E v \in PosVals : SetPos(v)
    \/ RunTask
    \/ WindowDraw
    \/ \E v \in ParentOffsetVals : MoveParent(v)
    \/ \E t \in TransitionNames : SetTransition(t)
    \/ PreEvent
    \/ PostEvent

SpecFrame == InitFrame /\ [][NextFrame]_vars

\* Construction: the widget before __init__ has built the quad, the keyword
\* properties assigned by the base constructor, then the setup tasks and no
\* further event.
InitConstruct ==
    /\ pos = Defaults.pos
    /\ size = Defaults.size
    /\ opacity = Defaults.opacity
    /\ disabled = Defaults.disabled
    /\ radius = Defaults.radius
    /\ elevation = Defaults.elevation
    /\ shadow_radius = Defaults.shadow_radius
    /\ shadow_softness = Defaults.shadow_softness
    /\ shadow_offset = Defaults.shadow_offset
    /\ shadow_color = Defaults.shadow_color
    /\ _transition_ref = "none"
    /\ _has_relative_position = FALSE
    /\ _elevation = 0
    /\ _shadow_color = <<0, 0, 0, 0>>
    /\ has_rect = FALSE
    /\ rect = [pos |-> Unset, size |-> Unset]
    /\ context = [ use_parent_modelview |-> FALSE,
                   shadow_radius |-> Unset, shadow_softness |-> Unset,
                   shadow_color |-> Unset, pos |-> Unset, size |-> Unset,
                   resolution |-> Unset, mouse |-> Unset, fs |-> "" ]
    /\ clock = <<>>
    /\ running = Idle
    /\ bound = 0
    /\ draw_bound = FALSE
    /\ bindings = {}
    /\ ChipDefaults
    /\ chain = <<"plain", "plain">>
    /\ parent_offset \in ParentOffsetVals
    /\ transition = <<"Slide", "Transition">>

NextConstruct ==
    \/ \E v \in PosVals : KwargPos(v)
    \/ \E v \in SizeVals : KwargSize(v)
    \/ \E v \in ElevationInputs : KwargElevation(v)
    \/ \E v \in BOOLEAN : KwargDisabled(v)
    \/ \E v \in OpacityVals : KwargOpacity(v)
    \/ \E v \in RadiusVals : KwargShadowRadius(v)
    \/ \E v \in SoftnessVals : KwargShadowSoftness(v)
    \/ \E v \in ColorVals : KwargShadowColor(v)
    \/ \E v \in OffsetVals : KwargShadowOffset(v)
    \/ Construct
    \/ RunSetupTask

SpecConstruct == InitConstruct /\ [][NextConstruct]_vars

\* The chip under touches and under assignments from application code, at
\* any moment.
InitChip ==
    /\ InitWidget
    /\ chain = <<"plain", "plain">>
    /\ parent_offset = <<0, 0>>
    /\ transition = <<"Slide", "Transition">>

NextChip ==
    \/ \E inside \in BOOLEAN : TouchDown(inside)
    \/ LongTouch
    \/ TouchUp
    \/ \E v \in BOOLEAN : SetActive(v)
    \/ \E v \in IconVals : SetIconLeft(v)

SpecChip == InitChip /\ [][NextChip]_vars

\* The touch-driven chip: between a touch-down and its release only the
\* touch handlers run.
NextChipTouch ==
    \/ \E inside \in BOOLEAN : TouchDown(inside)
    \/ LongTouch
    \/ TouchUp
    \/ \E v \in BOOLEAN : ConfigureActive(v)
    \/ \E v \in IconVals : ConfigureIconLeft(v)

SpecChipTouch == InitChip /\ [][NextChipTouch]_vars

\* Bursts: a widget built with any elevation, then shadow_radius,
\* shadow_softness and shadow_color assigned any number of times between
\* the ticks of the clock, from the moment __init__ has returned.
AssignShadowRadius(v) == has_rect /\ SetShadowRadius(v)

AssignShadowSoftness(v) == has_rect /\ SetShadowSoftness(v)

AssignShadowColor(v) == has_rect /\ SetShadowColor(v)

NextBurst ==
    \/ \E v \in ElevationInputs : KwargElevation(v)
    \/ Construct
    \/ \E v \in RadiusVals : AssignShadowRadius(v)
    \/ \E v \in SoftnessVals : AssignShadowSoftness(v)
    \/ \E v \in BurstColorVals : AssignShadowColor(v)
    \/ RunSetupTask

SpecBurst == InitConstruct /\ [][NextBurst]_vars

(* ------------------------------ properties ----------------------------- *)
\* host_size + e * softness / 2 in each axis
QuadSize(sz, e, softness) ==
    <<sz[1] + Half(e * softness), sz[2] + Half(e * softness)>>

\* p - (shadow_size - host_size) / 2 - offset in each axis
QuadPos(p, quad_size, sz, offset) ==
    << p[1] - Half(quad_size[1] - sz[1]) - offset[1],
       p[2] - Half(quad_size[2] - sz[2]) - offset[2] >>

\* The assignment self.disabled = v with the handler it dispatches.
AssignDisabled(w, v) ==
    IF v = w.disabled THEN w ELSE on_disabled([w EXCEPT !.disabled = v], v)

\* C1 (as stated): once on_disabled(True) has run, the internal _elevation
\* is 0 whatever the stored elevation is.
C1_ElevationZeroOnDisable ==
    [][(~disabled /\ disabled') => _elevation' = 0]_vars

\* C1 (amended): once on_disabled(True) has run, the internal _elevation is
\* the negated stored elevation -e (0 only when e = 0), _shadow_color is
\* [0, 0, 0, 0] and the shadow quad is sized host_size - e * softness / 2.
C1_ElevationNegatedOnDisable ==
    [][(~disabled /\ disabled') =>
          /\ _elevation' = -elevation'
          /\ elevation' = elevation
          /\ _shadow_color' = <<0, 0, 0, 0>>
          /\ rect'.size = QuadSize(size', -elevation', shadow_softness')
      ]_vars

C1_Witness ==
    /\ disabled
    /\ elevation = MaxElev
    /\ _elevation = -MaxElev
    /\ rect.size = QuadSize(size, -MaxElev, shadow_softness)

\* C2: for an enabled widget with elevation e > 0 and no deferred task
\* pending, disabled = true then disabled = false, followed by all deferred
\* tasks, restores _elevation to e, the shadow quad size to its pre-disable
\* value and the shadow alpha to the host opacity.
C2_DisableRoundTrip ==
    (~disabled /\ elevation > 0 /\ clock = <<>>) =>
        LET r == Drain(AssignDisabled(AssignDisabled(Self, TRUE), FALSE))
        IN /\ r._elevation = elevation
           /\ r.rect.size = rect.size
           /\ r._shadow_color[4] = opacity
           /\ r.context.shadow_color[4] = opacity

\* C3: whenever the widget is enabled and no deferred task is pending, the
\* shadow quad size is host_size + elevation * shadow_softness / 2 in each
\* axis.
C3_QuadSize ==
    (~disabled /\ clock = <<>>) =>
        rect.size = QuadSize(size, elevation, shadow_softness)

\* C4: whenever no deferred task is pending, the shadow quad position is
\* P - (shadow_size - host_size) / 2 - shadow_offset in each axis, P being
\* the window position when the relative-position flag is set and the
\* context does not use the parent modelview, the local position otherwise.
C4_QuadPos ==
    clock = <<>> =>
        rect.pos = QuadPos(IF _has_relative_position
                              /\ ~context.use_parent_modelview
                           THEN window_pos(Self) ELSE pos,
                           rect.size, size, shadow_offset)

\* C5: whenever the widget is disabled and no deferred task is pending, the
\* shadow colour alpha in the shader and in _shadow_color is 0.
C5_DisabledAlphaZero ==
    (disabled /\ clock = <<>>) =>
        /\ _shadow_color[4] = 0
        /\ context.shadow_color # Unset
        /\ context.shadow_color[4] = 0

\* C6: for an enabled widget whose elevation is 0, once the deferred tasks
\* have run the shadow colour alpha in the shader is 0.
C6_ZeroElevationAlphaZero ==
    (~disabled /\ elevation = 0 /\ clock = <<>>) =>
        /\ context.shadow_color # Unset
        /\ context.shadow_color[4] = 0

\* C7: no handler of the behaviour changes the user-facing elevation,
\* shadow_color, shadow_softness or shadow_offset.
C7_HandlersKeepUserProperties ==
    \A r \in { on_disabled([Self EXCEPT !.disabled = TRUE], TRUE),
               on_disabled([Self EXCEPT !.disabled = FALSE], FALSE),
               hide_elevation(Self, TRUE), hide_elevation(Self, FALSE),
               on_pos(Self), on_size(Self),
               apply_correction(Self), reset_correction(Self) }
           \cup { deferred_on_elevation(Self, v) : v \in 0..MaxElev }
           \cup { on_opacity(Self, v) : v \in OpacityVals }
           \cup { deferred_on_opacity(Self, v) : v \in OpacityVals } :
        /\ r.elevation = elevation
        /\ r.shadow_color = shadow_color
        /\ r.shadow_softness = shadow_softness
        /\ r.shadow_offset = shadow_offset

C7_Witness ==
    /\ disabled
    /\ elevation = MaxElev
    /\ _elevation = -MaxElev
    /\ _shadow_color = <<0, 0, 0, 0>>
    /\ shadow_color = <<0, 0, 0, 6>>
    /\ clock = <<>>

\* C8: when the host radius changes to [a, b, c, d], on_radius sets
\* shadow_radius to exactly [b, c, a, d].
C8_RadiusPermutation ==
    [][radius' # radius =>
          shadow_radius' = <<radius'[2], radius'[3], radius'[1], radius'[4]>>
      ]_vars

C8_Witness ==
    /\ radius = <<1, 2, 3, 4>>
    /\ shadow_radius = <<2, 3, 1, 4>>
    /\ context.shadow_radius = <<2, 3, 1, 4>>

\* C9: the shadow quad position computed after setting shadow_offset to
\* (x, y) differs from the one computed with offset (0, 0), everything else
\* equal, by exactly (-x, -y).
C9_OffsetShift ==
    \A o \in OffsetVals :
        LET a == on_shadow_offset([Self EXCEPT !.shadow_offset = o], o)
            b == on_shadow_offset([Self EXCEPT !.shadow_offset = <<0, 0>>],
                                  <<0, 0>>)
        IN a.rect.pos = <<b.rect.pos[1] - o[1], b.rect.pos[2] - o[2]>>

C9_Witness ==
    /\ shadow_offset = <<3, -1>>
    /\ elevation > 0
    /\ ~disabled
    /\ _has_relative_position
    /\ clock = <<>>
    /\ rect.pos = QuadPos(window_pos(Self), rect.size, size, <<3, -1>>)

\* The frame on_pos works in, read off its result with the parent placed
\* away from the window origin.
FrameOf(w) ==
    IF on_pos([w EXCEPT !.parent_offset = <<1, 1>>]).rect.pos
           = QuadPos(<<w.pos[1] + 1, w.pos[2] + 1>>, w.rect.size,
                     w.size, w.shadow_offset)
    THEN "window" ELSE "local"

\* The transition classes that slide the screen: SlideTransition, its
\* subclass CardTransition and MDFadeSlideTransition.
SlideOrCardTransitions ==
    { <<"Slide", "Transition">>, <<"Card", "Transition">>,
      <<"MD", "Fade", "Slide", "Transition">> }

\* C10: a pre-enter / pre-leave event of the bound ancestor, with a
\* transition reference recorded, makes on_pos work from the window position
\* when the transition is a slide or card transition and from the local
\* position for every other kind, and this lasts until the next enter /
\* leave event.
C10_FrameDuringTransition ==
    [][ /\ (running = Idle /\ running' # Idle
              /\ bound # 0 /\ _transition_ref # "none") =>
               FrameOf(Self)' = IF running' \in SlideOrCardTransitions
                                THEN "window" ELSE "local"
        /\ (running # Idle /\ running' = running
              /\ bound # 0 /\ _transition_ref # "none") =>
               FrameOf(Self)' = FrameOf(Self)
      ]_vars

C10_Witness ==
    /\ running = <<"Fade", "Transition">>
    /\ bound # 0
    /\ _transition_ref = "manager"
    /\ context.use_parent_modelview
    /\ window_pos(Self) # pos
    /\ clock = <<>>
    /\ rect.pos = QuadPos(pos, rect.size, size, shadow_offset)

Hidden(w) == w.disabled \/ w.elevation <= 0

\* The quad geometry and the uniforms the given properties stand for: the
\* quad of on_size and on_pos, the radius and softness as assigned, the
\* colour with the host opacity as alpha, and [0, 0, 0, 0] for a hidden
\* shadow as hide_elevation assigns it.
DerivedFrom(w) ==
    LET e == IF Hidden(w) THEN -w.elevation ELSE w.elevation
        p == IF w._has_relative_position /\ ~w.context.use_parent_modelview
             THEN window_pos(w) ELSE w.pos
        rs == QuadSize(w.size, e, w.shadow_softness)
        rp == QuadPos(p, rs, w.size, w.shadow_offset)
        rgb == IF Hidden(w) THEN <<0, 0, 0>> ELSE ButLast(w.shadow_color)
        alpha == IF Hidden(w) THEN 0 ELSE w.opacity
    IN [ rect |-> [pos |-> rp, size |-> rs],
         shadow_radius |-> w.shadow_radius,
         shadow_softness |-> w.shadow_softness,
         shadow_color |-> rgb \o <<alpha>>,
         pos |-> rp, size |-> rs, resolution |-> rs \o rp,
         mouse |-> <<rp[1], 0, 0, 0>> ]

\* The quad and the uniforms as they are.
Shown(w) ==
    [ rect |-> w.rect,
      shadow_radius |-> w.context.shadow_radius,
      shadow_softness |-> w.context.shadow_softness,
      shadow_color |-> w.context.shadow_color,
      pos |-> w.context.pos, size |-> w.context.size,
      resolution |-> w.context.resolution, mouse |-> w.context.mouse ]

\* __init__ has returned and every deferred task has run.
SetupDone == has_rect /\ clock = <<>>

\* C12: after a construction with any keyword properties, once the deferred
\* setup tasks have run, the quad geometry and every uniform are the ones
\* derived from the current properties.
C12_RecoveredAfterSetup == SetupDone => Shown(Self) = DerivedFrom(Self)

\* C13: the user-facing elevation is never negative, and an assignment of a
\* negative value is carried out as an assignment of 0: the step is taken
\* like any other and leaves elevation at 0.
C13_ElevationNonNegative ==
    /\ elevation >= 0
    /\ [][ /\ elevation' >= 0
           /\ (\E v \in ElevationInputs : v < 0 /\ SetElevation(v))
                  => elevation' = 0 ]_vars

\* A negative value assigned to an elevated widget: the handler has
\* scheduled its task with the value 0.
C13_Witness ==
    /\ elevation = 0
    /\ _elevation > 0
    /\ clock # <<>>
    /\ clock[Len(clock)] = [task |-> "on_elevation", value |-> <<0>>]

\* C14: a touch-down inside an active chip clears active before the touch
\* goes to the inherited handling: after the step the chip is inactive and
\* the inherited press handling has seen active = FALSE.
C14_ClearedBeforeDelegation ==
    [][(TouchDown(TRUE) /\ active) =>
           (~active' /\ seen_active' = <<FALSE>>)]_vars

\* A press on an active chip: the chip is down, inactive, and the last
\* animation started is the one that removes the mark.
C14_Witness ==
    /\ touch = "inside"
    /\ state = "down"
    /\ seen_active = <<FALSE>>
    /\ ~active
    /\ animations # <<>>
    /\ animations[Len(animations)].scale_value = 0
    /\ long_touch_event

\* C15: on_long_touch makes the chip active exactly when it has a left icon
\* and is not active yet; with no left icon, or on an active chip, it
\* leaves active as it is and starts no animation.
C15_LongTouchActivates ==
    [][LongTouch =>
           IF icon_left # "" /\ ~active
           THEN active'
           ELSE active' = active /\ animations' = animations]_vars

\* A long touch has marked an inactive chip with a left icon.
C15_Witness ==
    /\ touch = "inside"
    /\ ~long_touch_event
    /\ active
    /\ icon_left # ""
    /\ animations =
           << [md_bg_color |-> <<0, 0, 0, 4>>, scale_value |-> 1] >>

\* C16: a change of active from false to true on a chip with a left icon
\* starts exactly one animation pair, to the icon box background
\* (0, 0, 0, 0.4) and the check icon scale 1; a change from true to false
\* starts exactly one pair, to background alpha 0 and scale 0; an assignment
\* of the value active already has starts none.
C16_OnePairPerChange ==
    [][ /\ (~active /\ active' /\ icon_left # "") =>
               animations' =
                   Append(animations, [md_bg_color |-> <<0, 0, 0, 4>>,
                                       scale_value |-> 1])
        /\ (active /\ ~active') =>
               /\ Len(animations') = Len(animations) + 1
               /\ SubSeq(animations', 1, Len(animations)) = animations
               /\ animations'[Len(animations')].md_bg_color[4] = 0
               /\ animations'[Len(animations')].scale_value = 0
        /\ (assigned' = assigned + 1 /\ active' = active) =>
               animations' = animations ]_vars

\* The mark set and removed again, one pair each, with one assignment made
\* from application code.
C16_Witness ==
    /\ assigned = 1
    /\ ~active
    /\ icon_left # ""
    /\ animations =
           << [md_bg_color |-> <<0, 0, 0, 4>>, scale_value |-> 1],
              [md_bg_color |-> <<0, 0, 0, 0>>, scale_value |-> 0] >>

\* C19: when only touches act on the chip between a touch-down and its
\* release, on_long_touch never finds the chip active, a long touch on a
\* chip with a left icon leaves it active, and a chip with a left icon that
\* is inactive when the finger goes up has had no long touch in that press.
C19_LongPressKeepsMark ==
    [][ /\ LongTouch => (~active /\ (icon_left # "" => active'))
        /\ (TouchUp /\ touch = "inside" /\ icon_left # "" /\ ~active)
               => long_touch_event ]_vars

\* A long press on a marked chip: the touch-down removed the mark, the long
\* touch set it again.
C19_Witness ==
    /\ touch = "inside"
    /\ ~long_touch_event
    /\ active
    /\ seen_active = <<FALSE>>
    /\ icon_left # ""
    /\ animations =
           << [md_bg_color |-> <<0, 0, 0, 4>>, scale_value |-> 1],
              [md_bg_color |-> <<0, 0, 0, 0>>, scale_value |-> 0],
              [md_bg_color |-> <<0, 0, 0, 4>>, scale_value |-> 1] >>

\* The nearest widget of the chain, the host first, that has on_pre_enter;
\* 0 when there is none.
Nearest(ch) ==
    IF \E i \in 1..Len(ch) : HasPreEnter(ch[i])
    THEN CHOOSE i \in 1..Len(ch) :
             /\ HasPreEnter(ch[i])
             /\ \A j \in 1..(i - 1) : ~HasPreEnter(ch[j])
    ELSE 0

\* C17: check_for_relative_behavior ends on every chain, a root that is its
\* own parent or has none included; it binds on_pre_enter and on_pre_leave
\* to apply_correction and on_enter and on_leave to reset_correction on the
\* nearest widget with on_pre_enter and on no other; when there is no such
\* widget it binds nothing and sets the relative-position flag exactly when
\* the host position differs from its window position.
C17_BindsNearest ==
    [][ ( /\ clock # <<>>
          /\ Head(clock).task = "check_for_relative_behavior"
          /\ clock' = Tail(clock) ) =>
        LET n == Nearest(chain)
        IN /\ bound' >= 0
           /\ bound' = n
           /\ \A b \in bindings' : b.widget = n
           /\ n # 0 =>
                  /\ { <<b.event, b.callback>> : b \in bindings' } =
                         { <<"on_pre_enter", "apply_correction">>,
                           <<"on_pre_leave", "apply_correction">>,
                           <<"on_enter", "reset_correction">>,
                           <<"on_leave", "reset_correction">> }
                  /\ _has_relative_position'
           /\ n = 0 =>
                  /\ bindings' = {}
                  /\ _has_relative_position' <=> (pos # window_pos(Self))
      ]_vars

\* The check has run under a tab inside a screen and bound the tab.
C17_Witness ==
    /\ chain = <<"plain", "tab", "screen">>
    /\ bound = 2
    /\ Cardinality(bindings) = 4
    /\ _transition_ref = "panel"
    /\ draw_bound

\* C18: once every pending deferred task has run, the shadow_radius,
\* shadow_softness and shadow_color uniforms are the ones of the last
\* assignment to each property (of the colour, its three colour channels:
\* the alpha of the uniform is the host's).
C18_LastAssignmentWins ==
    SetupDone =>
        /\ context.shadow_radius = shadow_radius
        /\ context.shadow_softness = shadow_softness
        /\ ButLast(context.shadow_color) = ButLast(shadow_color)

\* C18, amended: the same for the radius and the softness, and for the
\* colour of a visible shadow; the colour uniform of a hidden shadow is the
\* one of the last assignment or the hidden colour, never that of an earlier
\* assignment.
C18_LastAssignmentOrHidden ==
    SetupDone =>
        /\ context.shadow_radius = shadow_radius
        /\ context.shadow_softness = shadow_softness
        /\ \/ ButLast(context.shadow_color) = ButLast(shadow_color)
           \/ Hidden(Self) /\ ButLast(context.shadow_color) = <<0, 0, 0>>

\* A burst has run out on a visible shadow: two assignments of the colour
\* and the radius were made between two ticks and the last ones are shown.
C18_Witness ==
    /\ SetupDone
    /\ ~Hidden(Self)
    /\ shadow_color = <<5, 0, 0, 10>>
    /\ context.shadow_color = <<5, 0, 0, 10>>
    /\ shadow_radius = <<5, 5, 6, 7>>
    /\ context.shadow_radius = <<5, 5, 6, 7>>
    /\ shadow_softness = 8
====
